---- MODULE Spec2Model ----
(***************************************************************************)
(* Process supervision of package allegory (process.go, state.go):         *)
(* RunProcess and its supervisor goroutine, the messaging primitives       *)
(* NotifyProcess / NotifyAllProcesses / NotifyWhere / Close, and the       *)
(* state transitions NewState / NewStateNow / setState that wait for the   *)
(* process list to drain; and the event bus of package bus (bus/bus.go):   *)
(* AddListener, RemoveListener, Signal, Clear.                             *)
(*                                                                         *)
(* Every goroutine is a thread with a program counter.  A step is one      *)
(* access to shared memory (the _messengers map, the _processes slice,     *)
(* _processMutex, a channel, _state) together with the goroutine-local     *)
(* code around it.                                                         *)
(***************************************************************************)
EXTENDS Naturals, Sequences, FiniteSets

(***************************************************************************)
(* Bounds of the model.                                                    *)
(***************************************************************************)
\* supervisor goroutines (= channels made by RunProcess) in one behaviour
MaxRuns == 3
\* calls made by the client goroutines in one behaviour
MaxOps == 3
\* list elements made by AddListener in one behaviour
MaxListeners == 3

(***************************************************************************)
(* Identities.                                                             *)
(***************************************************************************)
Nil == "nil"
\* process references; p1 implements ProcessContinuer, p2 does not
Procs == {"p1", "p2"}
\* processes whose type has the method NextProcess
Continuers == {"p1"}
\* processes whose owner set OnComplete of the BaseProcess they embed
WithOnComplete == {"p1", "p2"}
\* how the process's struct embeds BaseProcess: p1 as `BaseProcess`,
\* p2 as `*BaseProcess`; the field is named BaseProcess either way
Embedding(p) == IF p = "p1" THEN "BaseProcess" ELSE "*BaseProcess"
\* game states handed to NewState / NewStateNow
States == {"s1", "s2"}
\* the views handed to NewState / NewStateNow with a state
ViewsOf(st) == IF st = "s1" THEN <<>> ELSE <<"v1">>

\* a supervisor goroutine and the channel it reads share one id
Runs == 1..MaxRuns
NoChan == 0
\* goroutines of the caller (the main loop, event handlers)
Clients == {101, 102}
\* the goroutine started by NewState
Waiters == {201}
Threads == Runs \cup Clients \cup Waiters
NoThread == 0

\* &quit{}, quit{}, &tick{} and any other value
QuitPtr == "&quit{}"
QuitVal == "quit{}"
TickPtr == "&tick{}"
App == "app"
\* what a caller outside the package can pass to NotifyProcess; the
\* main loop of the package passes &tick{}
ClientMsgs == {TickPtr, App}
\* the sets of processes a filter given to NotifyWhere accepts
Filters == {{"p1"}, {"p2"}}

VARIABLES
    _messengers,    \* map[Process]chan: process -> channel id, NoChan when absent
    _processes,     \* slice header and backing array: [arr, len]
    _processMutex,  \* the thread holding the mutex, or NoThread
    _state,         \* the current GameState, Nil before the first
    _views,         \* the list of views of the current state
    stateLog,       \* the GameState callbacks made so far, in order
    closed,         \* closed[ch]: close(ch) has run
    fatal,          \* "none", or the fatal error the runtime ended the program with
    pc,             \* pc[t]: where thread t stands
    loc,            \* loc[t]: the locals of the call thread t is in
    run,            \* run[r]: the locals of supervisor goroutine r and what it did
    nruns,          \* channels made so far
    ops,            \* client calls made so far
    _bus,           \* map[uint]*list.List: event type -> [ok, l]
    busOp,          \* the last call made on the bus and what it did
    busPanic,       \* "none", or the panic a call on the bus ended with
    nadds           \* list elements made so far

\* the variables of package bus
bus == <<_bus, busOp, busPanic, nadds>>

\* the variables of package allegory
allegory == <<_messengers, _processes, _processMutex, _state, _views,
              stateLog, closed, fatal, pc, loc, run, nruns, ops>>

vars == <<_messengers, _processes, _processMutex, _state, _views, stateLog,
          closed, fatal, pc, loc, run, nruns, ops, bus>>

registry == <<_messengers, _processes, _processMutex>>
game == <<_state, _views, stateLog>>

(***************************************************************************)
(* The slice _processes.  append and the removal in the deferred function  *)
(* work on the backing array in place; a range loop keeps the header it    *)
(* read when it started (array and length) and reads the elements as it    *)
(* goes.                                                                   *)
(***************************************************************************)
\* the elements of the slice, _processes[0:len]
Elems(s) == SubSeq(s.arr, 1, s.len)

\* growslice for a slice that is full: 0 -> 1, then doubling
GrowCap(cap) == IF cap = 0 THEN 1 ELSE 2 * cap

\* _processes = append(_processes, p)
AppendProcess(s, p) ==
    IF s.len < Len(s.arr)
    THEN [arr |-> [s.arr EXCEPT ![s.len + 1] = p], len |-> s.len + 1]
    ELSE [arr |-> [i \in 1..GrowCap(Len(s.arr)) |->
                     IF i <= s.len THEN s.arr[i]
                     ELSE IF i = s.len + 1 THEN p ELSE Nil],
          len |-> s.len + 1]

\* whether append has to allocate a new backing array
Reallocates(s) == s.len = Len(s.arr)

\* the index of the first element equal to p, 0 when there is none
RECURSIVE IndexFrom(_, _, _)
IndexFrom(s, p, i) ==
    IF i > s.len THEN 0
    ELSE IF s.arr[i] = p THEN i
    ELSE IndexFrom(s, p, i + 1)
IndexOf(s, p) == IndexFrom(s, p, 1)

\* _processes = append(_processes[:i], _processes[i+1:]...):
\* the elements after i move one slot down in the same array; the last
\* slot keeps its old value
RemoveAt(s, i) ==
    [arr |-> [j \in 1..Len(s.arr) |->
                IF j >= i /\ j < s.len THEN s.arr[j + 1] ELSE s.arr[j]],
     len |-> s.len - 1]

\* the loop of the deferred function: remove the first p, if any
RemoveFirst(s, p) ==
    IF IndexOf(s, p) = 0 THEN s ELSE RemoveAt(s, IndexOf(s, p))

\* number of elements equal to p
Count(s, p) == Cardinality({i \in 1..s.len : s.arr[i] = p})

\* _processes.Len()
ProcessesLen == _processes.len

(***************************************************************************)
(* Locals.                                                                 *)
(***************************************************************************)
NoRange == [n |-> 0, shared |-> FALSE, snap |-> <<>>]

\* the locals of a thread that is in no call
NoLoc ==
    [rp |-> Nil,        \* RunProcess: p
     rch |-> NoChan,    \* RunProcess: ch
     target |-> Nil,    \* NotifyProcess: p
     msg |-> Nil,       \* NotifyProcess / NotifyAllProcesses / NotifyWhere: msg
     ch |-> NoChan,     \* NotifyProcess: ch
     bcast |-> FALSE,   \* NotifyProcess was called from a range loop
     rng |-> NoRange,   \* the slice header the range loop read
     idx |-> 0,         \* the range loop's index, from 1
     filter |-> {},     \* NotifyWhere: the processes filter accepts
     st |-> Nil,        \* NewState / NewStateNow / setState: state
     vs |-> <<>>,       \* NewState / NewStateNow / setState: views
     now |-> FALSE,     \* the range loop is NewStateNow's
     got |-> <<>>,      \* the processes whose handler the range loop's
                        \* message has reached, in order
     by |-> NoThread,   \* NotifyProcess: the client that made the call
     no |-> 0]          \* NotifyProcess: the number of the call among
                        \* all calls made, from 1

\* the locals of a supervisor goroutine that has not been started
NoRun ==
    [proc |-> Nil,      \* p
     alive |-> TRUE,
     carryOn |-> TRUE,
     msg |-> Nil,       \* the last message received
     called |-> "none", \* the method the last message was dispatched to
     received |-> 0,    \* messages taken from the channel
     calls |-> 0,       \* calls of p.Tick() and p.HandleMessage()
     last |-> [c \in Clients |-> 0],
                        \* last[c]: the number of the last NotifyProcess
                        \* call of client c whose message the loop took
     exit |-> "none",   \* what ended the loop
     cleanups |-> 0,    \* calls of p.CleanupProcess()
     completes |-> 0,   \* calls of OnComplete
     queried |-> 0,     \* calls of p.NextProcess()
     next |-> Nil,      \* what NextProcess returned
     started |-> FALSE] \* RunProcess(next) was called

\* package-level declarations: empty map, empty slice, unlocked mutex,
\* no state, no views
RegistryInit ==
    /\ _messengers = [p \in Procs |-> NoChan]
    /\ _processes = [arr |-> <<>>, len |-> 0]
    /\ _processMutex = NoThread
    /\ _state = Nil
    /\ _views = <<>>

(***************************************************************************)
(* The event bus: identities and initial state.                            *)
(***************************************************************************)
\* event ids
EventTypes == {1, 2}
\* listeners: f and g are func(string), h is func(string, int)
Funcs == {"f", "g", "h"}
\* a value that is not a func
NotFunc == "notfunc"
\* reflect.ValueOf(f).Type(): the parameter types t.In(0), t.In(1), ...
In(f) == IF f = "h" THEN <<"string", "int">> ELSE <<"string">>
\* reflect.ValueOf(nil): the zero Value, which has no type
NilParam == "nil"
\* params of Signal, each given by its dynamic type
ParamLists == {<<>>, <<"string">>, <<"int">>, <<NilParam>>,
               <<"string", "int">>, <<"string", "string">>}

\* _bus[eventType] when the map has no entry: ok is false, the list is nil
NoList == [ok |-> FALSE, l |-> <<>>]
\* no call has been made on the bus
NoBusOp == [op |-> "none", t |-> 0, f |-> Nil, params |-> <<>>,
            before |-> <<>>, calls |-> <<>>]

\* var _bus = make(map[uint]*list.List)
BusInit ==
    /\ _bus = [t \in EventTypes |-> NoList]
    /\ busOp = NoBusOp
    /\ busPanic = "none"
    /\ nadds = 0

Init ==
    /\ RegistryInit
    /\ BusInit
    /\ stateLog = <<>>
    /\ closed = [r \in Runs |-> FALSE]
    /\ fatal = "none"
    /\ pc = [t \in Threads |-> IF t \in Runs THEN "unborn" ELSE "idle"]
    /\ loc = [t \in Threads |-> NoLoc]
    /\ run = [r \in Runs |-> NoRun]
    /\ nruns = 0
    /\ ops = 0

\* thread t stands at label l, in a program that is running
At(t, l) == fatal = "none" /\ pc[t] = l

(***************************************************************************)
(* RunProcess, on the calling thread: a client, or a supervisor goroutine  *)
(* starting its successor.                                                 *)
(***************************************************************************)
\* what p.InitProcess() may return: an error or not.  Once MaxRuns
\* channels exist only the failing outcome is explored.
InitOutcomes == IF nruns < MaxRuns THEN {"ok", "err"} ELSE {"err"}

\* RunProcess returns to its caller: a client goes on, a supervisor
\* goroutine has reached the end of its function and runs what it deferred
AfterRun(t) == IF t \in Runs THEN "dereg_lock" ELSE "idle"

\* RunInit with the map entry made before InitProcess is called
RunInitRegistersFirst(t) ==
    /\ At(t, "rp_init")
    /\ \E o \in InitOutcomes :
         IF o = "err"
         THEN /\ pc' = [pc EXCEPT ![t] = AfterRun(t)]
              /\ loc' = [loc EXCEPT ![t] = NoLoc]
              /\ nruns' = nruns
         ELSE /\ pc' = [pc EXCEPT ![t] = "rp_map"]
              /\ loc' = [loc EXCEPT ![t].rch = nruns + 1]
              /\ nruns' = nruns + 1
    /\ _messengers' = [_messengers EXCEPT ![loc[t].rp] = nruns + 1]
    /\ UNCHANGED <<bus, _processes, _processMutex, game, closed, fatal, run, ops>>

\* p.InitProcess(); on an error: report and return; else ch := make(chan)
RunInit(t) ==
    /\ At(t, "rp_init")
    /\ \E o \in InitOutcomes :
         IF o = "err"
         THEN /\ pc' = [pc EXCEPT ![t] = AfterRun(t)]
              /\ loc' = [loc EXCEPT ![t] = NoLoc]
              /\ nruns' = nruns
         ELSE /\ pc' = [pc EXCEPT ![t] = "rp_map"]
              /\ loc' = [loc EXCEPT ![t].rch = nruns + 1]
              /\ nruns' = nruns + 1
    /\ UNCHANGED <<bus, registry, game, closed, fatal, run, ops>>

\* _messengers[p] = ch
RunSetMessenger(t) ==
    /\ At(t, "rp_map")
    /\ _messengers' = [_messengers EXCEPT ![loc[t].rp] = loc[t].rch]
    /\ pc' = [pc EXCEPT ![t] = "rp_lock"]
    /\ UNCHANGED <<bus, _processes, _processMutex, game, closed, fatal, loc, run,
                   nruns, ops>>

\* _processMutex.Lock()
RunLock(t) ==
    /\ At(t, "rp_lock")
    /\ _processMutex = NoThread
    /\ _processMutex' = t
    /\ pc' = [pc EXCEPT ![t] = "rp_append"]
    /\ UNCHANGED <<bus, _messengers, _processes, game, closed, fatal, loc, run,
                   nruns, ops>>

\* a range loop that read its header from the array append is leaving
\* keeps the old array
Detach(l) ==
    IF l.rng.shared
    THEN [l EXCEPT !.rng = [n |-> l.rng.n, shared |-> FALSE,
                            snap |-> SubSeq(_processes.arr, 1, l.rng.n)]]
    ELSE l

\* the locals of the goroutine `go func() {...}()` starts
NewRun(p) == [NoRun EXCEPT !.proc = p]

\* _processes = append(_processes, p); _processMutex.Unlock(); go func()
RunAppend(t) ==
    /\ At(t, "rp_append")
    /\ _processMutex = t
    /\ _processes' = AppendProcess(_processes, loc[t].rp)
    /\ _processMutex' = NoThread
    /\ pc' = [pc EXCEPT ![t] = AfterRun(t), ![loc[t].rch] = "recv"]
    /\ run' = [run EXCEPT ![loc[t].rch] = NewRun(loc[t].rp)]
    /\ loc' = [u \in Threads |->
                 IF u = t THEN NoLoc
                 ELSE IF Reallocates(_processes) THEN Detach(loc[u])
                 ELSE loc[u]]
    /\ UNCHANGED <<bus, _messengers, game, closed, fatal, nruns, ops>>

(***************************************************************************)
(* The supervisor goroutine.                                               *)
(***************************************************************************)
\* MsgCase with `case quit:` in place of `case *quit:`
MsgCaseQuitByValue(m) ==
    IF m = QuitVal THEN "quit"
    ELSE IF m = TickPtr THEN "tick"
    ELSE "default"

\* switch msg.(type): case *quit, case *tick, default
MsgCase(m) ==
    IF m = QuitPtr THEN "quit"
    ELSE IF m = TickPtr THEN "tick"
    ELSE "default"

\* what the method a message is dispatched to may return:
\* Tick: (true, nil), (false, nil) or an error; HandleMessage: nil or an error
Outcomes(c) ==
    IF c = "quit" THEN {"none"}
    ELSE IF c = "tick" THEN {"true", "false", "err"}
    ELSE {"nil", "err"}

\* the case of the switch taken for message m, the method called
\* returning o
Switch(rr, m, o) ==
    LET c == MsgCase(m) IN
    IF c = "quit"
    THEN [rr EXCEPT !.msg = m, !.called = "none", !.alive = FALSE,
                    !.carryOn = FALSE, !.exit = "quit"]
    ELSE IF c = "tick"
    THEN IF o = "err"
         THEN [rr EXCEPT !.msg = m, !.called = "Tick", !.alive = FALSE,
                         !.carryOn = FALSE, !.exit = "tickerr"]
         ELSE [rr EXCEPT !.msg = m, !.called = "Tick", !.alive = (o = "true"),
                         !.exit = IF o = "true" THEN "none" ELSE "tickfalse"]
    ELSE IF o = "err"
         THEN [rr EXCEPT !.msg = m, !.called = "HandleMessage",
                         !.alive = FALSE, !.carryOn = FALSE,
                         !.exit = "handleerr"]
         ELSE [rr EXCEPT !.msg = m, !.called = "HandleMessage"]

\* Dispatch with the loop going round once more on the same message when
\* Tick returned true
DispatchTicksAgain(rr, m, o) ==
    [Switch(rr, m, o) EXCEPT
       !.received = @ + 1,
       !.calls = IF MsgCase(m) = "quit" THEN @
                 ELSE IF MsgCase(m) = "tick" /\ o = "true" THEN @ + 2
                 ELSE @ + 1]

\* one pass of `for alive { switch msg := <-ch; ... }`: a message is taken
\* from the channel and, unless it is *quit, one method is called with it
Dispatch(rr, m, o) ==
    [Switch(rr, m, o) EXCEPT
       !.received = @ + 1,
       !.calls = IF MsgCase(m) = "quit" THEN @ ELSE @ + 1]

\* AfterDispatch with the handler error path leaving without cleanup
AfterDispatchErrorSkipsCleanup(rr) ==
    IF rr.alive THEN "recv"
    ELSE IF rr.exit = "handleerr" THEN "complete" ELSE "cleanup"

\* `for alive`: the loop goes on receiving, or ends and CleanupProcess is next
AfterDispatch(rr) == IF rr.alive THEN "recv" ELSE "cleanup"

\* NotifyProcess returns: to the range loop that called it, or to the client
AfterNotify(l) ==
    IF l.bcast
    THEN [l EXCEPT !.target = Nil, !.ch = NoChan, !.bcast = FALSE]
    ELSE NoLoc
PcAfterNotify(l) == IF l.bcast THEN "na_iter" ELSE "idle"

\* the send of a range loop has reached Tick or HandleMessage of p
Received(l, p) ==
    IF l.bcast /\ MsgCase(l.msg) # "quit"
    THEN [l EXCEPT !.got = Append(@, p)]
    ELSE l

\* the loop has taken the message of the NotifyProcess call with locals l
TakenFrom(rr, l) ==
    IF l.by \in Clients /\ ~l.bcast
    THEN [rr EXCEPT !.last[l.by] = l.no]
    ELSE rr

\* ch <- msg meets msg := <-ch: the sender goes on, the supervisor
\* dispatches the message; outs are the returns the called method may make
Deliver(s, r, outs) ==
    /\ At(s, "np_send")
    /\ loc[s].ch = r
    /\ pc[r] = "recv"
    /\ ~closed[r]
    /\ \E o \in Outcomes(MsgCase(loc[s].msg)) \cap outs :
         LET rr == TakenFrom(Dispatch(run[r], loc[s].msg, o), loc[s]) IN
         /\ run' = [run EXCEPT ![r] = rr]
         /\ pc' = [pc EXCEPT ![s] = PcAfterNotify(loc[s]),
                             ![r] = AfterDispatch(rr)]
    /\ loc' = [loc EXCEPT ![s] = AfterNotify(Received(loc[s], run[r].proc))]
    /\ UNCHANGED <<bus, registry, game, closed, fatal, nruns, ops>>

AllOutcomes == {"none", "true", "false", "nil", "err"}

\* Cleanup with the process taken off the list before CleanupProcess runs
CleanupAfterRemoval(r) ==
    /\ At(r, "cleanup")
    /\ run' = [run EXCEPT ![r].cleanups = @ + 1]
    /\ pc' = [pc EXCEPT ![r] = "complete"]
    /\ _processes' = RemoveFirst(_processes, run[r].proc)
    /\ UNCHANGED <<bus, _messengers, _processMutex, game, closed, fatal, loc,
                   nruns, ops>>

\* p.CleanupProcess()
Cleanup(r) ==
    /\ At(r, "cleanup")
    /\ run' = [run EXCEPT ![r].cleanups = @ + 1]
    /\ pc' = [pc EXCEPT ![r] = "complete"]
    /\ UNCHANGED <<bus, registry, game, closed, fatal, loc, nruns, ops>>

\* base.Interface().(BaseProcess) is ok only for a field of type
\* BaseProcess; b.OnComplete != nil when the owner set it
CallsOnComplete(p) == Embedding(p) = "BaseProcess" /\ p \in WithOnComplete

\* the reflective look for an embedded BaseProcess and its OnComplete
Complete(r) ==
    /\ At(r, "complete")
    /\ run' = [run EXCEPT ![r].completes =
                 IF CallsOnComplete(run[r].proc) THEN @ + 1 ELSE @]
    /\ pc' = [pc EXCEPT ![r] = "next"]
    /\ UNCHANGED <<bus, registry, game, closed, fatal, loc, nruns, ops>>

\* what p.NextProcess() may return
NextResults == Procs \cup {Nil}

\* AsksNext without the test of carryOn
AsksNextWithoutCarryOn(rr) == rr.proc \in Continuers

\* whether `if p, ok := p.(ProcessContinuer); carryOn && ok` is taken
AsksNext(rr) == rr.carryOn /\ rr.proc \in Continuers

\* Successor with the process taken off the list before its successor is run
SuccessorAfterRemoval(r) ==
    /\ At(r, "next")
    /\ IF AsksNext(run[r])
       THEN \E n \in NextResults :
              /\ run' = [run EXCEPT ![r].queried = @ + 1, ![r].next = n,
                                    ![r].started = (n # Nil)]
              /\ pc' = [pc EXCEPT ![r] =
                          IF n # Nil THEN "rp_init" ELSE "dereg_lock"]
              /\ loc' = [loc EXCEPT ![r].rp = n]
       ELSE /\ pc' = [pc EXCEPT ![r] = "dereg_lock"]
            /\ UNCHANGED <<run, loc>>
    /\ _processes' = RemoveFirst(_processes, run[r].proc)
    /\ UNCHANGED <<bus, _messengers, _processMutex, game, closed, fatal, nruns, ops>>

\* if p, ok := p.(ProcessContinuer); carryOn && ok {
\*     if next := p.NextProcess(); next != nil { RunProcess(next) } }
Successor(r) ==
    /\ At(r, "next")
    /\ IF AsksNext(run[r])
       THEN \E n \in NextResults :
              /\ run' = [run EXCEPT ![r].queried = @ + 1, ![r].next = n,
                                    ![r].started = (n # Nil)]
              /\ pc' = [pc EXCEPT ![r] =
                          IF n # Nil THEN "rp_init" ELSE "dereg_lock"]
              /\ loc' = [loc EXCEPT ![r].rp = n]
       ELSE /\ pc' = [pc EXCEPT ![r] = "dereg_lock"]
            /\ UNCHANGED <<run, loc>>
    /\ UNCHANGED <<bus, registry, game, closed, fatal, nruns, ops>>

\* deferred: _processMutex.Lock()
DeregLock(r) ==
    /\ At(r, "dereg_lock")
    /\ _processMutex = NoThread
    /\ _processMutex' = r
    /\ pc' = [pc EXCEPT ![r] = "dereg_remove"]
    /\ UNCHANGED <<bus, _messengers, _processes, game, closed, fatal, loc, run,
                   nruns, ops>>

\* deferred: remove the first element equal to p; _processMutex.Unlock()
DeregRemove(r) ==
    /\ At(r, "dereg_remove")
    /\ _processMutex = r
    /\ _processes' = RemoveFirst(_processes, run[r].proc)
    /\ _processMutex' = NoThread
    /\ pc' = [pc EXCEPT ![r] = "dereg_map"]
    /\ UNCHANGED <<bus, _messengers, game, closed, fatal, loc, run, nruns, ops>>

\* deferred: delete(_messengers, p)
DeregDelete(r) ==
    /\ At(r, "dereg_map")
    /\ _messengers' = [_messengers EXCEPT ![run[r].proc] = NoChan]
    /\ pc' = [pc EXCEPT ![r] = "dereg_close"]
    /\ UNCHANGED <<bus, _processes, _processMutex, game, closed, fatal, loc, run,
                   nruns, ops>>

\* DeregClose without close(ch)
DeregWithoutClose(r) ==
    /\ At(r, "dereg_close")
    /\ closed' = closed
    /\ pc' = [pc EXCEPT ![r] = "done"]
    /\ run' = [run EXCEPT ![r] = NoRun]
    /\ UNCHANGED <<bus, registry, game, fatal, loc, nruns, ops>>

\* deferred: close(ch); the goroutine ends and its locals are gone
DeregClose(r) ==
    /\ At(r, "dereg_close")
    /\ closed' = [closed EXCEPT ![r] = TRUE]
    /\ pc' = [pc EXCEPT ![r] = "done"]
    /\ run' = [run EXCEPT ![r] = NoRun]
    /\ UNCHANGED <<bus, registry, game, fatal, loc, nruns, ops>>

(***************************************************************************)
(* NotifyProcess, NotifyAllProcesses, NotifyWhere.                         *)
(***************************************************************************)
\* NotifyLookup with the send left to a new goroutine, `go func() { ch <-
\* msg }()`, when a thread is free to be it
NotifyLookupAsync(t) ==
    /\ At(t, "np_lookup")
    /\ IF _messengers[loc[t].target] = NoChan
       THEN /\ pc' = [pc EXCEPT ![t] = PcAfterNotify(loc[t])]
            /\ loc' = [loc EXCEPT ![t] = AfterNotify(loc[t])]
       ELSE IF \E u \in Waiters : pc[u] = "idle"
       THEN \E u \in Waiters :
              /\ pc[u] = "idle"
              /\ pc' = [pc EXCEPT ![t] = PcAfterNotify(loc[t]), ![u] = "np_send"]
              /\ loc' = [loc EXCEPT
                           ![t] = AfterNotify(loc[t]),
                           ![u] = [loc[t] EXCEPT
                                     !.ch = _messengers[loc[t].target],
                                     !.bcast = FALSE]]
       ELSE /\ pc' = [pc EXCEPT ![t] = "np_send"]
            /\ loc' = [loc EXCEPT ![t].ch = _messengers[loc[t].target]]
    /\ UNCHANGED <<bus, registry, game, closed, fatal, run, nruns, ops>>

\* if ch, ok := _messengers[p]; ok { ... }: not ok returns at once
NotifyLookup(t) ==
    /\ At(t, "np_lookup")
    /\ IF _messengers[loc[t].target] = NoChan
       THEN /\ pc' = [pc EXCEPT ![t] = PcAfterNotify(loc[t])]
            /\ loc' = [loc EXCEPT ![t] = AfterNotify(loc[t])]
       ELSE /\ pc' = [pc EXCEPT ![t] = "np_send"]
            /\ loc' = [loc EXCEPT ![t].ch = _messengers[loc[t].target]]
    /\ UNCHANGED <<bus, registry, game, closed, fatal, run, nruns, ops>>

\* ch <- msg on a closed channel panics, also when the channel is closed
\* while the sender waits; the deferred recover() ends the call quietly
NotifyRecover(t) ==
    /\ At(t, "np_send")
    /\ closed[loc[t].ch]
    /\ pc' = [pc EXCEPT ![t] = PcAfterNotify(loc[t])]
    /\ loc' = [loc EXCEPT ![t] = AfterNotify(loc[t])]
    /\ UNCHANGED <<bus, registry, game, closed, fatal, run, nruns, ops>>

\* for _, process := range _processes: the header is read once
RangeStart(t) ==
    /\ At(t, "na_range")
    /\ pc' = [pc EXCEPT ![t] = "na_iter"]
    /\ loc' = [loc EXCEPT ![t].rng = [n |-> _processes.len, shared |-> TRUE,
                                      snap |-> <<>>],
                          ![t].idx = 1]
    /\ UNCHANGED <<bus, registry, game, closed, fatal, run, nruns, ops>>

\* the element the range loop reads at its index: from the array it
\* started on, as that array is now
RangeElem(l) ==
    IF l.rng.shared THEN _processes.arr[l.idx] ELSE l.rng.snap[l.idx]

\* the locals NewStateNow keeps when its NotifyAllProcesses returns
AfterRange(l) == IF l.now THEN [NoLoc EXCEPT !.st = l.st, !.vs = l.vs] ELSE NoLoc

\* one turn of the range loop: past the end the loop is over; otherwise
\* read the element and, when the filter accepts it, call NotifyProcess
RangeNext(t) ==
    /\ At(t, "na_iter")
    /\ IF loc[t].idx > loc[t].rng.n
       THEN /\ pc' = [pc EXCEPT ![t] = IF loc[t].now THEN "poll" ELSE "idle"]
            /\ loc' = [loc EXCEPT ![t] = AfterRange(loc[t])]
       ELSE IF RangeElem(loc[t]) \in loc[t].filter
       THEN /\ pc' = [pc EXCEPT ![t] = "np_lookup"]
            /\ loc' = [loc EXCEPT ![t].target = RangeElem(loc[t]),
                                  ![t].bcast = TRUE,
                                  ![t].idx = @ + 1]
       ELSE /\ pc' = pc
            /\ loc' = [loc EXCEPT ![t].idx = @ + 1]
    /\ UNCHANGED <<bus, registry, game, closed, fatal, run, nruns, ops>>

(***************************************************************************)
(* The unsynchronized accesses to the map _messengers: the read in         *)
(* NotifyProcess, the write in RunProcess and the delete in the deferred   *)
(* function take no lock.  When two goroutines stand at such accesses and  *)
(* one of them writes, the accesses can overlap, and the runtime's map     *)
(* code then ends the program with a fatal error that recover() does not   *)
(* stop.                                                                   *)
(***************************************************************************)
MapReaders == {t \in Threads : pc[t] = "np_lookup"}
MapWriters == {t \in Threads : pc[t] \in {"rp_map", "dereg_map"}}

MapRace ==
    /\ fatal = "none"
    /\ \/ /\ \E w \in MapWriters : \E t \in MapReaders : TRUE
          /\ fatal' = "concurrent map read and map write"
       \/ /\ \E w \in MapWriters : \E v \in MapWriters : w # v
          /\ fatal' = "concurrent map writes"
    /\ UNCHANGED <<bus, registry, game, closed, pc, loc, run, nruns, ops>>

(***************************************************************************)
(* NewState, NewStateNow, setState.                                        *)
(***************************************************************************)
\* for _processes.Len() > 0 { runtime.Gosched() }
Poll(t) ==
    /\ At(t, "poll")
    /\ pc' = [pc EXCEPT ![t] = IF ProcessesLen > 0 THEN "poll" ELSE "ss_cleanup"]
    /\ UNCHANGED <<bus, registry, game, closed, fatal, loc, run, nruns, ops>>

\* setState, first half: _state.CleanupState() when there is a state, then
\* CleanupView() of every view
SetStateCleanup(t) ==
    /\ At(t, "ss_cleanup")
    /\ stateLog' = IF _state # Nil
                   THEN Append(stateLog, <<"CleanupState", _state>>)
                   ELSE stateLog
    /\ pc' = [pc EXCEPT ![t] = "ss_init"]
    /\ UNCHANGED <<bus, registry, _state, _views, closed, fatal, loc, run, nruns, ops>>

\* setState, second half: _state = state; _state.InitState();
\* _views.Init(); every view given is initialised and pushed
SetStateInit(t) ==
    /\ At(t, "ss_init")
    /\ _state' = loc[t].st
    /\ stateLog' = Append(stateLog, <<"InitState", loc[t].st>>)
    /\ _views' = loc[t].vs
    /\ pc' = [pc EXCEPT ![t] = "idle"]
    /\ loc' = [loc EXCEPT ![t] = NoLoc]
    /\ UNCHANGED <<bus, registry, closed, fatal, run, nruns, ops>>

(***************************************************************************)
(* The calls a client goroutine makes.                                     *)
(***************************************************************************)
\* client goroutines that are in no call are interchangeable: the call is
\* made from the first of them
CanCall(c) ==
    /\ At(c, "idle")
    /\ \A d \in Clients : d < c => pc[d] # "idle"
    /\ ops < MaxOps

\* RunProcess(p)
CallRunProcess(c, p) ==
    /\ CanCall(c)
    /\ pc' = [pc EXCEPT ![c] = "rp_init"]
    /\ loc' = [loc EXCEPT ![c].rp = p]
    /\ ops' = ops + 1
    /\ UNCHANGED <<bus, registry, game, closed, fatal, run, nruns>>

\* NotifyProcess(p, msg)
CallNotifyProcess(c, p, m) ==
    /\ CanCall(c)
    /\ pc' = [pc EXCEPT ![c] = "np_lookup"]
    /\ loc' = [loc EXCEPT ![c].target = p, ![c].msg = m]
    /\ ops' = ops + 1
    /\ UNCHANGED <<bus, registry, game, closed, fatal, run, nruns>>

\* NotifyProcess(p, msg), the call and its number kept with the message
CallNumbered(c, p, m) ==
    /\ CanCall(c)
    /\ pc' = [pc EXCEPT ![c] = "np_lookup"]
    /\ loc' = [loc EXCEPT ![c].target = p, ![c].msg = m, ![c].by = c,
                          ![c].no = ops + 1]
    /\ ops' = ops + 1
    /\ UNCHANGED <<bus, registry, game, closed, fatal, run, nruns>>

\* Close(p): NotifyProcess(p, &quit{})
Close(c, p) == CallNotifyProcess(c, p, QuitPtr)

\* NotifyWhere(msg, filter), f the processes filter accepts
CallNotifyWhere(c, m, f) ==
    /\ CanCall(c)
    /\ pc' = [pc EXCEPT ![c] = "na_range"]
    /\ loc' = [loc EXCEPT ![c].msg = m, ![c].filter = f]
    /\ ops' = ops + 1
    /\ UNCHANGED <<bus, registry, game, closed, fatal, run, nruns>>

\* NotifyAllProcesses(msg)
CallNotifyAllProcesses(c, m) == CallNotifyWhere(c, m, Procs)

\* NewState(state, views...): go func() { poll; setState }()
NewState(c, st, vs) ==
    /\ CanCall(c)
    /\ \E w \in Waiters :
         /\ pc[w] = "idle"
         /\ pc' = [pc EXCEPT ![w] = "poll"]
         /\ loc' = [loc EXCEPT ![w].st = st, ![w].vs = vs]
    /\ ops' = ops + 1
    /\ UNCHANGED <<bus, registry, game, closed, fatal, run, nruns>>

\* NewStateNow(state, views...): NotifyAllProcesses(quit{}), poll, setState
NewStateNow(c, st, vs) ==
    /\ CanCall(c)
    /\ pc' = [pc EXCEPT ![c] = "na_range"]
    /\ loc' = [loc EXCEPT ![c].msg = QuitVal, ![c].filter = Procs,
                          ![c].now = TRUE, ![c].st = st, ![c].vs = vs]
    /\ ops' = ops + 1
    /\ UNCHANGED <<bus, registry, game, closed, fatal, run, nruns>>

(***************************************************************************)
(* The program.                                                            *)
(***************************************************************************)
\* a step of RunProcess or of NotifyProcess on the thread that called it
CallStep(t) ==
    \/ RunInit(t)
    \/ RunSetMessenger(t)
    \/ RunLock(t)
    \/ RunAppend(t)
    \/ NotifyLookup(t)
    \/ NotifyRecover(t)

\* a step of supervisor goroutine r, its receive apart
SupervisorStep(r) ==
    \/ Cleanup(r)
    \/ Complete(r)
    \/ Successor(r)
    \/ DeregLock(r)
    \/ DeregRemove(r)
    \/ DeregDelete(r)
    \/ DeregClose(r)

\* a step of the range loop of NotifyAllProcesses / NotifyWhere
RangeStep(t) ==
    \/ RangeStart(t)
    \/ RangeNext(t)

\* a step of the wait for the processes to finish and of setState
StateStep(t) ==
    \/ Poll(t)
    \/ SetStateCleanup(t)
    \/ SetStateInit(t)

\* the calls about one process
ProcessCall(c) ==
    \/ \E p \in Procs : CallRunProcess(c, p)
    \/ \E p \in Procs, m \in ClientMsgs : CallNotifyProcess(c, p, m)
    \/ \E p \in Procs : Close(c, p)

\* the calls that reach every running process
BroadcastCall(c) ==
    \/ \E m \in ClientMsgs : CallNotifyAllProcesses(c, m)
    \/ \E m \in ClientMsgs, f \in Filters : CallNotifyWhere(c, m, f)

\* the calls that change the game state
StateCall(c) ==
    \/ \E st \in States : NewState(c, st, ViewsOf(st))
    \/ \E st \in States : NewStateNow(c, st, ViewsOf(st))

\* package allegory: any client makes any call
Next ==
    \/ \E t \in Threads : CallStep(t)
    \/ \E t \in Threads, r \in Runs : Deliver(t, r, AllOutcomes)
    \/ \E r \in Runs : SupervisorStep(r)
    \/ \E t \in Threads : RangeStep(t)
    \/ \E t \in Threads : StateStep(t)
    \/ \E c \in Clients : ProcessCall(c) \/ BroadcastCall(c) \/ StateCall(c)
    \/ MapRace

Spec == Init /\ [][Next]_vars

\* clients that run, notify and close single processes
NextLife ==
    \/ \E t \in Threads : CallStep(t)
    \/ \E t \in Threads, r \in Runs : Deliver(t, r, AllOutcomes)
    \/ \E r \in Runs : SupervisorStep(r)
    \/ \E c \in Clients : ProcessCall(c)
    \/ MapRace

SpecLife == Init /\ [][NextLife]_vars

\* clients that run and close processes and change the game state
NextState ==
    \/ \E t \in Threads : CallStep(t)
    \/ \E t \in Threads, r \in Runs : Deliver(t, r, AllOutcomes)
    \/ \E r \in Runs : SupervisorStep(r)
    \/ \E t \in Threads : RangeStep(t)
    \/ \E t \in Threads : StateStep(t)
    \/ \E c \in Clients, p \in Procs : CallRunProcess(c, p) \/ Close(c, p)
    \/ \E c \in Clients : StateCall(c)
    \/ MapRace

SpecState == Init /\ [][NextState]_vars

\* a step of goroutine t that is not a rendezvous and not a new call
OwnStep(t) ==
    \/ CallStep(t)
    \/ t \in Runs /\ SupervisorStep(t)

\* the process that is run and sent to: a ProcessContinuer, whose
\* successor may be itself, p2 or nil
Leaver == "p1"

\* clients that run one process and send to it, with no two map accesses
\* overlapping and with every goroutine that can take a step of its own
\* eventually taking it: the methods of the processes return, the mutex
\* is released by whoever holds it, and the scheduler runs every runnable
\* goroutine
NextRelease ==
    \/ \E t \in Threads : CallStep(t)
    \/ \E t \in Threads, r \in Runs : Deliver(t, r, AllOutcomes)
    \/ \E r \in Runs : SupervisorStep(r)
    \/ \E c \in Clients : CallRunProcess(c, Leaver)
    \/ \E c \in Clients, m \in ClientMsgs : CallNotifyProcess(c, Leaver, m)

SpecRelease ==
    /\ Init
    /\ [][NextRelease]_vars
    /\ \A t \in Threads : WF_vars(OwnStep(t))

\* no client is inside NotifyAllProcesses or NotifyWhere
NoCast ==
    \A d \in Clients : pc[d] \notin {"na_range", "na_iter", "np_lookup", "np_send"}

\* RunProcess(p) for a process that has not been run, called before the
\* first broadcast and when no other RunProcess is in progress
StartOnce(c, p) ==
    /\ At(c, "idle")
    /\ \A d \in Clients : d < c => pc[d] # "idle"
    /\ ops = 0
    /\ _messengers[p] = NoChan
    /\ Count(_processes, p) = 0
    /\ \A t \in Threads : loc[t].rp = Nil
    /\ pc' = [pc EXCEPT ![c] = "rp_init"]
    /\ loc' = [loc EXCEPT ![c].rp = p]
    /\ UNCHANGED <<bus, registry, game, closed, fatal, run, nruns, ops>>

\* a step of supervisor goroutine r of a process whose NextProcess, when
\* it has one, returns nil
LastStep(r) ==
    \/ Cleanup(r)
    \/ Complete(r)
    \/ Successor(r) /\ run'[r].next = Nil
    \/ DeregLock(r)
    \/ DeregRemove(r)
    \/ DeregDelete(r)
    \/ DeregClose(r)

\* clients that start each process once and then broadcast, one broadcast
\* at a time, while a process that ends takes itself off the list
NextCast ==
    \/ \E t \in Threads : CallStep(t)
    \/ \E t \in Threads, r \in Runs : Deliver(t, r, AllOutcomes)
    \/ \E r \in Runs : LastStep(r)
    \/ \E t \in Threads : RangeStep(t)
    \/ \E c \in Clients, p \in Procs : StartOnce(c, p)
    \/ \E c \in Clients, m \in ClientMsgs :
         NoCast /\ CallNotifyAllProcesses(c, m)
    \/ \E c \in Clients, m \in ClientMsgs, f \in Filters :
         NoCast /\ CallNotifyWhere(c, m, f)
    \/ MapRace

SpecCast == Init /\ [][NextCast]_vars

\* the process the numbered messages are sent to
Addressee == "p2"

\* clients that start each process once and then send numbered messages
\* to one of them, or close it
NextOrder ==
    \/ \E t \in Threads : CallStep(t)
    \/ \E t \in Threads, r \in Runs : Deliver(t, r, AllOutcomes)
    \/ \E r \in Runs : LastStep(r)
    \/ \E c \in Clients, p \in Procs : StartOnce(c, p)
    \/ \E c \in Clients, m \in ClientMsgs \cup {QuitPtr} :
         CallNumbered(c, Addressee, m)
    \/ MapRace

SpecOrder == Init /\ [][NextOrder]_vars

(***************************************************************************)
(* Package bus.  Its functions take no lock and start no goroutine; each   *)
(* call runs from beginning to end on the goroutine that made it.  A       *)
(* listener that is called does not use the bus itself.                    *)
(***************************************************************************)
\* the listeners in a list, front to back
FuncsOf(l) == [i \in 1..Len(l) |-> l[i].f]

\* &e.Value: the address of the field Value of list element e
ValueAddr(e) == <<"Element.Value", e.addr>>
\* &f: the address of the parameter f of the running call of RemoveListener
ParamAddr == <<"parameter f", 0>>

\* for e := listeners.Front(); e != nil; e = e.Next():
\* the index of the first element with &e.Value == &f, 0 when there is none
RECURSIVE FindFrom(_, _)
FindFrom(l, i) ==
    IF i > Len(l) THEN 0
    ELSE IF ValueAddr(l[i]) = ParamAddr THEN i
    ELSE FindFrom(l, i + 1)

\* listeners.Remove(e) for the element at index i
ListRemove(l, i) == SubSeq(l, 1, i - 1) \o SubSeq(l, i + 1, Len(l))

\* for i := 0; i<n; i++ { if t.In(i) != values[i].Type() {...} }:
\* Type() of the zero Value panics
RECURSIVE CompareTypes(_, _, _)
CompareTypes(t, values, i) ==
    IF i > Len(values) THEN "same"
    ELSE IF values[i] = NilParam THEN "panic"
    ELSE IF t[i] # values[i] THEN "differ"
    ELSE CompareTypes(t, values, i + 1)

\* the loop of Signal from element i on, calls being the listeners called
\* so far: a listener with another number of parameters or another
\* parameter type is passed over with a warning
RECURSIVE SignalFrom(_, _, _, _)
SignalFrom(l, values, i, calls) ==
    IF i > Len(l) THEN [calls |-> calls, panic |-> "none"]
    ELSE IF Len(In(l[i].f)) # Len(values)
    THEN SignalFrom(l, values, i + 1, calls)
    ELSE IF CompareTypes(In(l[i].f), values, 1) = "panic"
    THEN [calls |-> calls,
          panic |-> "reflect: call of reflect.Value.Type on zero Value"]
    ELSE IF CompareTypes(In(l[i].f), values, 1) = "differ"
    THEN SignalFrom(l, values, i + 1, calls)
    ELSE SignalFrom(l, values, i + 1, Append(calls, l[i].f))

\* Signal(eventType, params...)
Signal(t, params) ==
    /\ busPanic = "none"
    /\ LET listeners == _bus[t]
           r == IF ~listeners.ok \/ Len(listeners.l) = 0
                THEN [calls |-> <<>>, panic |-> "none"]
                ELSE SignalFrom(listeners.l, params, 1, <<>>)
       IN /\ busOp' = [op |-> "Signal", t |-> t, f |-> Nil, params |-> params,
                       before |-> FuncsOf(listeners.l), calls |-> r.calls]
          /\ busPanic' = r.panic
    /\ UNCHANGED <<allegory, _bus, nadds>>

\* AddListener(eventType, f): a value that is not a func is refused; the
\* list is made on first use; f goes to the back
AddListener(t, f) ==
    /\ busPanic = "none"
    /\ busOp' = [op |-> "AddListener", t |-> t, f |-> f, params |-> <<>>,
                 before |-> FuncsOf(_bus[t].l), calls |-> <<>>]
    /\ IF f = NotFunc
       THEN UNCHANGED <<_bus, nadds>>
       ELSE /\ nadds < MaxListeners
            /\ _bus' = [_bus EXCEPT ![t] =
                          [ok |-> TRUE,
                           l |-> Append(@.l, [addr |-> nadds + 1, f |-> f])]]
            /\ nadds' = nadds + 1
    /\ UNCHANGED <<allegory, busPanic>>

\* RemoveListener(eventType, f): _bus[eventType] is a nil *list.List when
\* the map has no entry, and Front() of a nil list dereferences it
RemoveListener(t, f) ==
    /\ busPanic = "none"
    /\ busOp' = [op |-> "RemoveListener", t |-> t, f |-> f, params |-> <<>>,
                 before |-> FuncsOf(_bus[t].l), calls |-> <<>>]
    /\ LET listeners == _bus[t] IN
       IF ~listeners.ok
       THEN /\ busPanic' = "invalid memory address or nil pointer dereference"
            /\ _bus' = _bus
       ELSE /\ busPanic' = busPanic
            /\ _bus' = IF FindFrom(listeners.l, 1) = 0 THEN _bus
                       ELSE [_bus EXCEPT ![t].l =
                               ListRemove(@, FindFrom(listeners.l, 1))]
    /\ UNCHANGED <<allegory, nadds>>

\* Clear(): every list is emptied and its entry deleted
Clear ==
    /\ busPanic = "none"
    /\ busOp' = [NoBusOp EXCEPT !.op = "Clear"]
    /\ _bus' = [t \in EventTypes |-> NoList]
    /\ UNCHANGED <<allegory, busPanic, nadds>>

\* package bus: any call
NextBus ==
    \/ \E t \in EventTypes, params \in ParamLists : Signal(t, params)
    \/ \E t \in EventTypes, f \in Funcs \cup {NotFunc} : AddListener(t, f)
    \/ \E t \in EventTypes, f \in Funcs : RemoveListener(t, f)
    \/ Clear

SpecBus == Init /\ [][NextBus]_vars

(***************************************************************************)
(* Where a supervisor goroutine stands.                                    *)
(***************************************************************************)
\* RunProcess(next), called by the supervisor goroutine, is in progress
StartingSuccessor == {"rp_init", "rp_map", "rp_lock", "rp_append"}
\* the deferred function is in progress
Deferred == {"dereg_lock", "dereg_remove", "dereg_map", "dereg_close"}
\* the loop has ended and p.CleanupProcess() has returned
CleanedUp == {"complete", "next"} \cup StartingSuccessor \cup Deferred
\* the `if ... carryOn && ok` statement is behind
PastSuccessor == StartingSuccessor \cup Deferred
\* the loop has ended and the process has not been taken off _processes
Leaving == {"cleanup", "complete", "next"} \cup StartingSuccessor
               \cup {"dereg_lock", "dereg_remove"}
\* what can end the loop
ExitPaths == {"quit", "tickfalse", "tickerr", "handleerr"}

(***************************************************************************)
(* C1.  When p.InitProcess() returns an error, RunProcess returns at once: *)
(* the step in which it fails changes neither the map _messengers nor the  *)
(* slice _processes, makes no channel, starts no supervisor goroutine and  *)
(* changes no goroutine's record of Tick, HandleMessage or CleanupProcess  *)
(* calls; the caller goes on where it would after RunProcess.              *)
(***************************************************************************)
InitFails(t) == pc[t] = "rp_init" /\ pc'[t] \notin {"rp_init", "rp_map"}

C1_InitFailureAborts ==
    [][\A t \in Threads :
         InitFails(t) =>
           /\ _messengers' = _messengers
           /\ _processes' = _processes
           /\ nruns' = nruns
           /\ run' = run
           /\ \A r \in Runs \ {t} : pc'[r] = pc[r]
           /\ pc'[t] = AfterRun(t)]_vars

\* a supervisor asked for its successor and called RunProcess(next), and
\* no second channel exists: the successor's InitProcess failed, and the
\* successor is in neither the map nor the slice
C1_Witness ==
    \E r \in Runs :
      /\ pc[r] = "dereg_lock"
      /\ run[r].started
      /\ run[r].next # run[r].proc
      /\ nruns = 1
      /\ _messengers[run[r].next] = NoChan
      /\ Count(_processes, run[r].next) = 0

(***************************************************************************)
(* C2.  In every run whose loop has ended, p.CleanupProcess() is called    *)
(* exactly once, whichever of Quit, Tick returning false, a Tick error or  *)
(* a HandleMessage error ended the loop, and never while the loop runs.    *)
(***************************************************************************)
C2_CleanupExactlyOnce ==
    \A r \in Runs :
      /\ pc[r] = "recv" =>
           run[r].cleanups = 0 /\ run[r].alive /\ run[r].exit = "none"
      /\ pc[r] = "cleanup" =>
           run[r].cleanups = 0 /\ ~run[r].alive /\ run[r].exit \in ExitPaths
      /\ pc[r] \in CleanedUp =>
           run[r].cleanups = 1 /\ ~run[r].alive /\ run[r].exit \in ExitPaths

\* two runs at the end of their deferred functions, one ended by Tick
\* returning false and one by a HandleMessage error, each cleaned up once
C2_Witness ==
    \E r, q \in Runs :
      /\ pc[r] = "dereg_close" /\ run[r].exit = "tickfalse"
      /\ run[r].cleanups = 1
      /\ pc[q] \in Deferred /\ run[q].exit = "handleerr"
      /\ run[q].cleanups = 1

(***************************************************************************)
(* C3.  RunProcess(next) is called by a supervisor if and only if its loop *)
(* ended by Tick returning false without error, the process is a           *)
(* ProcessContinuer and NextProcess() returned non-nil; after Quit, a Tick *)
(* error or a HandleMessage error NextProcess() is not called; it is       *)
(* called at most once in a run, and only after the loop.                  *)
(***************************************************************************)
C3_SuccessorIff ==
    \A r \in Runs :
      /\ run[r].queried <= 1
      /\ pc[r] \in {"recv", "cleanup", "complete", "next"} =>
           run[r].queried = 0 /\ ~run[r].started
      /\ pc[r] \in PastSuccessor =>
           /\ run[r].started <=>
                /\ run[r].exit = "tickfalse"
                /\ run[r].proc \in Continuers
                /\ run[r].next # Nil
           /\ run[r].queried = 1 <=>
                run[r].exit = "tickfalse" /\ run[r].proc \in Continuers
      /\ pc[r] \in StartingSuccessor =>
           run[r].started /\ loc[r].rp = run[r].next

\* a supervisor inside RunProcess(next) after Tick returned false
C3_Witness ==
    \E r \in Runs :
      /\ pc[r] = "rp_map"
      /\ run[r].exit = "tickfalse"
      /\ run[r].queried = 1
      /\ loc[r].rp = run[r].next

(***************************************************************************)
(* C4.  From the end of its loop until its deferred function removes it,   *)
(* a process is in _processes, so the slice is not empty while it hands    *)
(* off; and the step that appends the successor leaves both the process    *)
(* and its successor in the slice, one element longer than before.         *)
(***************************************************************************)
C4_StillListed ==
    \A r \in Runs :
      pc[r] \in Leaving => Count(_processes, run[r].proc) >= 1 /\ ProcessesLen >= 1

C4_SuccessorAppended ==
    \A r \in Runs :
      (pc[r] = "rp_append" /\ pc'[r] = "dereg_lock") =>
        /\ _processes'.len = _processes.len + 1
        /\ _processes.len >= 1
        /\ Count(_processes', run[r].proc) >= 1
        /\ Count(_processes', run[r].next) >= 1
        /\ run[r].proc # run[r].next \/ Count(_processes', run[r].proc) >= 2

C4_NoEmptyHandOff == [](C4_StillListed) /\ [][C4_SuccessorAppended]_vars

\* the successor has been appended and runs, its predecessor has not yet
\* taken the lock to remove itself: both are in the slice
C4_Witness ==
    \E r, q \in Runs :
      /\ pc[r] = "dereg_lock" /\ run[r].started
      /\ pc[q] = "recv" /\ run[q].proc = run[r].next
      /\ run[q].proc # run[r].proc
      /\ _processes.len = 2

(***************************************************************************)
(* C5.  Close(p) sends &quit{}.  The step in which a supervisor waiting in *)
(* its loop receives it ends the loop with carryOn false and calls neither *)
(* Tick nor HandleMessage; such a run calls CleanupProcess once, never     *)
(* calls NextProcess or RunProcess, even for a ProcessContinuer, and its   *)
(* deferred function takes one p off _processes, deletes p from the map    *)
(* and closes the channel.                                                 *)
(***************************************************************************)
\* the send of &quit{} by thread s completes on an open channel
QuitReceived(s) ==
    /\ pc[s] = "np_send"
    /\ pc'[s] # "np_send"
    /\ loc[s].msg = QuitPtr
    /\ ~closed[loc[s].ch]

C5_QuitEndsLoop ==
    \A s \in Threads :
      QuitReceived(s) =>
        LET r == loc[s].ch IN
        /\ pc[r] = "recv"
        /\ pc'[r] = "cleanup"
        /\ run'[r].msg = QuitPtr
        /\ ~run'[r].alive
        /\ ~run'[r].carryOn
        /\ run'[r].called = "none"
        /\ run'[r].exit = "quit"

C5_QuitRun ==
    \A r \in Runs :
      run[r].exit = "quit" =>
        /\ ~run[r].carryOn
        /\ run[r].queried = 0
        /\ ~run[r].started
        /\ pc[r] \in ({"cleanup"} \cup CleanedUp) \ StartingSuccessor
        /\ pc[r] \in CleanedUp => run[r].cleanups = 1

C5_QuitRunDeregisters ==
    \A r \in Runs :
      run[r].exit = "quit" =>
        /\ (pc[r] = "dereg_remove" /\ pc'[r] # "dereg_remove") =>
             Count(_processes', run[r].proc) = Count(_processes, run[r].proc) - 1
        /\ (pc[r] = "dereg_map" /\ pc'[r] # "dereg_map") =>
             _messengers'[run[r].proc] = NoChan
        /\ (pc[r] = "dereg_close" /\ pc'[r] # "dereg_close") => closed'[r]

C5_CloseStopsWithoutSuccessor ==
    /\ [](C5_QuitRun)
    /\ [][C5_QuitEndsLoop /\ C5_QuitRunDeregisters]_vars

\* a ProcessContinuer stopped by Quit, at the end of its deferred function:
\* cleaned up, never asked for a successor, gone from slice and map
C5_Witness ==
    \E r \in Runs :
      /\ pc[r] = "dereg_close"
      /\ run[r].exit = "quit"
      /\ run[r].proc \in Continuers
      /\ run[r].cleanups = 1
      /\ run[r].queried = 0
      /\ Count(_processes, run[r].proc) = 0
      /\ _messengers[run[r].proc] = NoChan

(***************************************************************************)
(* C6.  NotifyProcess, called alone or by NotifyAllProcesses, never fails: *)
(* it returns to its caller whatever the other goroutines do.  The one     *)
(* access of NotifyProcess that can fail beyond recover() is its read of   *)
(* the map.                                                                *)
(***************************************************************************)
C6_SendNeverFails ==
    ~(fatal = "concurrent map read and map write" /\ MapReaders # {})

\* the parts of C6 that do hold: a send to a process with no map entry
\* returns at once and changes nothing, and a send on a closed channel
\* returns and reaches no supervisor
C6_AbsentOrClosedIsNoOp ==
    [][\A t \in Threads :
         /\ (pc[t] = "np_lookup" /\ pc'[t] # "np_lookup"
               /\ _messengers[loc[t].target] = NoChan) =>
              /\ UNCHANGED <<registry, run, closed, nruns>>
              /\ pc'[t] = PcAfterNotify(loc[t])
              /\ \A u \in Threads \ {t} : pc'[u] = pc[u]
         /\ (pc[t] = "np_send" /\ pc'[t] # "np_send" /\ closed[loc[t].ch]) =>
              /\ UNCHANGED <<registry, run, closed, nruns>>
              /\ pc'[t] = PcAfterNotify(loc[t])
              /\ \A u \in Threads \ {t} : pc'[u] = pc[u]]_vars

(***************************************************************************)
(* C7.  The message NewStateNow broadcasts, quit{}, is dispatched by the   *)
(* supervisor that receives it as Quit: alive and carryOn become false and *)
(* HandleMessage is not called with it.                                    *)
(***************************************************************************)
C7_BroadcastIsQuit ==
    \A r \in Runs :
      run[r].msg = QuitVal =>
        /\ run[r].called = "none"
        /\ ~run[r].alive
        /\ ~run[r].carryOn

(***************************************************************************)
(* C8.  The setting of the claim: clients start processes, then one calls  *)
(* NewStateNow while no other call is in progress; no RunProcess is called *)
(* once NewStateNow has been, no method of a process returns an error, and *)
(* no two map accesses overlap.                                            *)
(* Every goroutine that can take a step eventually takes it: the Go        *)
(* scheduler runs every runnable goroutine, and the wait loop yields with  *)
(* runtime.Gosched().                                                      *)
(***************************************************************************)
\* returns of Tick and HandleMessage without an error
NoErrorOutcomes == {"none", "true", "false", "nil"}

\* client c is inside NewStateNow
InNewStateNow(c) ==
    pc[c] \in {"na_range", "na_iter", "np_lookup", "np_send", "poll",
               "ss_cleanup", "ss_init"}

NoNewStateNow == \A d \in Clients : ~InNewStateNow(d)

\* every client is in no call
AllIdle == \A d \in Clients : pc[d] = "idle"

\* a step of client t inside RunProcess or NewStateNow
DrainStep(t) ==
    \/ RunInit(t)
    \/ RunSetMessenger(t)
    \/ RunLock(t)
    \/ RunAppend(t)
    \/ NotifyLookup(t)
    \/ RangeStep(t)
    \/ StateStep(t)
    \/ \E r \in Runs : Deliver(t, r, NoErrorOutcomes)

NextDrain ==
    \/ \E t \in Clients : DrainStep(t)
    \/ \E c \in Clients, p \in Procs : NoNewStateNow /\ CallRunProcess(c, p)
    \/ \E c \in Clients, st \in States :
         AllIdle /\ NewStateNow(c, st, ViewsOf(st))

SpecDrain ==
    /\ Init
    /\ [][NextDrain]_vars
    /\ \A t \in Clients : WF_vars(DrainStep(t))

\* NewStateNow has just been called by c: at least one process is in
\* _processes, every process started waits in its loop, no RunProcess is
\* in progress
NowCalled(c) ==
    /\ pc[c] = "na_range"
    /\ ProcessesLen >= 1
    /\ \A d \in Clients \ {c} : pc[d] = "idle"
    /\ \A r \in Runs : pc[r] \in {"unborn", "recv"}
    /\ Cardinality({r \in Runs : pc[r] = "recv"}) = ProcessesLen

\* NewStateNow of c has returned: no process is left and the new state has
\* been installed and initialised after the old one was cleaned up
NowDone(c) ==
    /\ pc[c] = "idle"
    /\ ProcessesLen = 0
    /\ \A r \in Runs : pc[r] \in {"unborn", "done"}
    /\ _state # Nil
    /\ stateLog # <<>>
    /\ stateLog[Len(stateLog)][1] = "InitState"

C8_NewStateNowDrains == \A c \in Clients : NowCalled(c) ~> NowDone(c)

(***************************************************************************)
(* C9.  setState, called by the goroutine of NewState, begins only when no *)
(* process is in _processes, whatever RunProcess calls and supervisors run *)
(* beside it.                                                              *)
(***************************************************************************)
C9_SwapOnlyWhenEmpty ==
    \A w \in Waiters : pc[w] = "ss_cleanup" => ProcessesLen = 0

(***************************************************************************)
(* C10.  Whenever no RunProcess is between its map write and its append    *)
(* and no deferred function is between its removal and its delete, a       *)
(* process is in _processes if and only if it has an entry in _messengers. *)
(***************************************************************************)
\* no registration or deregistration is half done
Settled == \A t \in Threads : pc[t] \notin {"rp_lock", "rp_append", "dereg_map"}

C10_ListedIffMapped ==
    Settled =>
      \A p \in Procs : Count(_processes, p) >= 1 <=> _messengers[p] # NoChan

(***************************************************************************)
(* C11.  For a process whose owner set OnComplete, every run that passed   *)
(* InitProcess calls OnComplete exactly once: not before CleanupProcess    *)
(* has returned, and before NextProcess is asked and the successor's       *)
(* InitProcess is called, whatever ended the loop.                         *)
(***************************************************************************)
\* the reflective call of OnComplete is behind
PastComplete == {"next"} \cup PastSuccessor

C11_OnCompleteOnce ==
    \A r \in Runs :
      run[r].proc \in WithOnComplete =>
        /\ pc[r] \in {"recv", "cleanup", "complete"} => run[r].completes = 0
        /\ pc[r] \in PastComplete =>
             run[r].completes = 1 /\ run[r].cleanups = 1

\* the part of C11 that holds: the same for the processes that embed
\* BaseProcess by value
C11_ByValueOnce ==
    \A r \in Runs :
      CallsOnComplete(run[r].proc) =>
        /\ pc[r] \in {"recv", "cleanup", "complete"} => run[r].completes = 0
        /\ pc[r] \in PastComplete =>
             run[r].completes = 1 /\ run[r].cleanups = 1

(***************************************************************************)
(* C12.  RemoveListener(t, f), called when f is registered once for event  *)
(* type t, returns and leaves f unregistered for t, the other listeners of *)
(* t registered in their order and the other event types as they were; a   *)
(* later Signal(t, ...) then cannot call f.                                *)
(***************************************************************************)
\* f occurs exactly once in the sequence of listeners fs
Once(fs, f) == Cardinality({i \in 1..Len(fs) : fs[i] = f}) = 1

\* the sequence fs without f
Without(fs, f) == SelectSeq(fs, LAMBDA g : g # f)

C12_RemovedIsGone ==
    (busOp.op = "RemoveListener" /\ Once(busOp.before, busOp.f)) =>
      /\ busPanic = "none"
      /\ FuncsOf(_bus[busOp.t].l) = Without(busOp.before, busOp.f)

(***************************************************************************)
(* C13.  Signal(t, params) returns having called, in the order in which    *)
(* they were registered, exactly the listeners registered for t whose      *)
(* parameter types are the types of params, one for one; the listeners     *)
(* that do not match are passed over, and no listener of another event     *)
(* type is called.                                                         *)
(***************************************************************************)
\* the listeners among fs that take exactly the parameters params
Matching(fs, params) == SelectSeq(fs, LAMBDA g : In(g) = params)

C13_SignalCallsMatching ==
    busOp.op = "Signal" =>
      /\ busPanic = "none"
      /\ busOp.calls = Matching(busOp.before, busOp.params)

\* the part of C13 that holds: the same when no parameter is nil
C13_TypedParams ==
    (busOp.op = "Signal"
       /\ \A i \in 1..Len(busOp.params) : busOp.params[i] # NilParam) =>
      /\ busPanic = "none"
      /\ busOp.calls = Matching(busOp.before, busOp.params)

(***************************************************************************)
(* C14.  A goroutine that is about to change the map _messengers or the    *)
(* slice _processes, in RunProcess or in the deferred function, holds      *)
(* _processMutex, so at most one goroutine stands at such a change.        *)
(***************************************************************************)
\* the statements that change the slice, and those that change the map
SliceMutations == {"rp_append", "dereg_remove"}
MapMutations == {"rp_map", "dereg_map"}

C14_MutationUnderLock ==
    /\ \A t \in Threads :
         pc[t] \in SliceMutations \cup MapMutations => _processMutex = t
    /\ Cardinality({t \in Threads :
                      pc[t] \in SliceMutations \cup MapMutations}) <= 1

\* the part of C14 that holds: the changes of the slice are made under
\* the lock, one goroutine at a time
C14_SliceUnderLock ==
    /\ \A t \in Threads : pc[t] \in SliceMutations => _processMutex = t
    /\ Cardinality({t \in Threads : pc[t] \in SliceMutations}) <= 1

(***************************************************************************)
(* C15.  In one call of NotifyAllProcesses or NotifyWhere, in which every  *)
(* process was started once, the message reaches Tick or HandleMessage of  *)
(* each process at most once, whatever processes take themselves off       *)
(* _processes while the range loop runs.                                   *)
(***************************************************************************)
\* the number of times p occurs in the sequence of processes ps
Times(ps, p) == Cardinality({i \in 1..Len(ps) : ps[i] = p})

C15_AtMostOnce ==
    \A t \in Threads : \A p \in Procs : Times(loc[t].got, p) <= 1

(***************************************************************************)
(* C16.  A process stays listed while it shuts down.  While CleanupProcess *)
(* runs, and from then until the deferred function, the process is in      *)
(* _processes and its channel is open, so _processes.Len() is not 0 while  *)
(* a CleanupProcess is running; the only steps that take a process off     *)
(* _processes, delete its map entry or close a channel are those of the    *)
(* deferred function of a run that has called CleanupProcess once and,     *)
(* when it had a successor to start, has returned from RunProcess(next).   *)
(***************************************************************************)
\* from the end of the loop to the beginning of the deferred function
ShuttingDown == {"cleanup", "complete", "next"} \cup StartingSuccessor

C16_ListedInShutdown ==
    /\ \A r \in Runs :
         pc[r] \in ShuttingDown =>
           /\ Count(_processes, run[r].proc) >= 1
           /\ ~closed[r]
    /\ (\E r \in Runs : pc[r] \in ShuttingDown) => ProcessesLen > 0
    /\ \A r \in Runs : closed[r] => pc[r] = "done"

\* run r has cleaned up and is through with its successor
ShutDown(r) ==
    /\ pc[r] \in Deferred
    /\ run[r].cleanups = 1
    /\ AsksNext(run[r]) => run[r].queried = 1
    /\ run[r].started => run[r].next # Nil

C16_DeregisteredLast ==
    /\ \A p \in Procs :
         Count(_processes', p) < Count(_processes, p) =>
           \E r \in Runs : run[r].proc = p /\ ShutDown(r) /\ pc'[r] # pc[r]
    /\ \A p \in Procs :
         (_messengers[p] # NoChan /\ _messengers'[p] = NoChan) =>
           \E r \in Runs : run[r].proc = p /\ ShutDown(r) /\ pc'[r] # pc[r]
    /\ \A r \in Runs :
         (closed'[r] /\ ~closed[r]) => ShutDown(r) /\ pc'[r] # pc[r]

C16_RegisteredDuringShutdown ==
    [](C16_ListedInShutdown) /\ [][C16_DeregisteredLast]_vars

\* a run about to close its channel: it cleaned up, its successor runs
\* and is listed, and only then was the process itself taken off
C16_Witness ==
    \E r, q \in Runs :
      /\ pc[r] = "dereg_close" /\ ~closed[r]
      /\ run[r].cleanups = 1 /\ run[r].started
      /\ run[r].next # run[r].proc
      /\ pc[q] = "recv" /\ run[q].proc = run[r].next
      /\ Count(_processes, run[r].proc) = 0
      /\ Count(_processes, run[q].proc) = 1

(***************************************************************************)
(* C17.  The loop calls one method for each message it takes from the      *)
(* channel: Tick for *tick, HandleMessage for any other message but *quit, *)
(* none for *quit.  Once what ends the loop has happened, the run takes no *)
(* message and calls neither Tick nor HandleMessage again, also while      *)
(* senders wait on its channel.                                            *)
(***************************************************************************)
\* the method the loop calls for message m
MethodFor(m) ==
    IF m = QuitPtr THEN "none" ELSE IF m = TickPtr THEN "Tick" ELSE "HandleMessage"

C17_OneCallEach ==
    \A r \in Runs :
      /\ run[r].calls = run[r].received - (IF run[r].exit = "quit" THEN 1 ELSE 0)
      /\ run[r].received >= 1 => run[r].called = MethodFor(run[r].msg)
      /\ run[r].exit # "none" => pc[r] # "recv"

\* run r takes a message from its channel in this step
Receives(r) == run'[r].received = run[r].received + 1

C17_LoopStep ==
    \A r \in Runs :
      /\ Receives(r) =>
           /\ run[r].exit = "none"
           /\ \E s \in Threads :
                /\ pc[s] = "np_send" /\ pc'[s] # "np_send"
                /\ loc[s].ch = r
                /\ run'[r].msg = loc[s].msg
           /\ run'[r].calls = run[r].calls
                                 + (IF MethodFor(run'[r].msg) = "none" THEN 0 ELSE 1)
      /\ (run[r].exit # "none" /\ pc'[r] # "done") =>
           /\ run'[r].calls = run[r].calls
           /\ run'[r].received = run[r].received
           /\ run'[r].msg = run[r].msg

C17_OneCallPerMessage == [](C17_OneCallEach) /\ [][C17_LoopStep]_vars

\* a sender waits on the channel of a run that Tick returning false has
\* ended: the run took one message, called Tick once and is about to
\* close the channel
C17_Witness ==
    \E r \in Runs, s \in Clients :
      /\ pc[r] = "dereg_close"
      /\ run[r].exit = "tickfalse"
      /\ run[r].received = 1 /\ run[r].calls = 1
      /\ pc[s] = "np_send" /\ loc[s].ch = r /\ loc[s].msg = App

(***************************************************************************)
(* C18.  The messages one client sends to a process with NotifyProcess,    *)
(* one call after the other, are taken by the process's loop in the order  *)
(* of the calls, whatever other clients send to the process meanwhile.     *)
(***************************************************************************)
\* the loop of run r takes, in this step, the message of a NotifyProcess
\* call with locals l
Takes(r, l) ==
    /\ Receives(r)
    /\ l.ch = r /\ ~l.bcast /\ l.by \in Clients
    /\ run'[r].last[l.by] = l.no
    /\ run'[r].msg = l.msg

C18_TakenInCallOrder ==
    \A r \in Runs, s \in Threads :
      (pc[s] = "np_send" /\ pc'[s] # "np_send" /\ Takes(r, loc[s])) =>
        loc[s].no > run[r].last[loc[s].by]

C18_SingleSenderOrder == [][C18_TakenInCallOrder]_vars

\* a loop has taken three messages, the first and the third from one
\* client, the second from the other
C18_Witness ==
    \E r \in Runs :
      /\ run[r].received = 3
      /\ \A c \in Clients : run[r].last[c] >= 2

(***************************************************************************)
(* C19.  A client that waits in `ch <- msg` on the channel of a run whose  *)
(* loop has ended does not wait for ever: the run closes the channel at    *)
(* the end of its deferred function and the client's NotifyProcess         *)
(* returns.  The step in which it returns changes no run: the message is   *)
(* dropped and no method is called with it.                                *)
(***************************************************************************)
\* client s waits to send on the channel of run r, whose loop has ended
BlockedOn(s, r) ==
    /\ pc[s] = "np_send" /\ loc[s].ch = r
    /\ pc[r] \in Leaving \cup Deferred

\* the channel of run r is closed and client s no longer waits on it
ReleasedFrom(s, r) ==
    /\ closed[r]
    /\ ~(pc[s] = "np_send" /\ loc[s].ch = r)

\* a send that ends on a channel whose loop is not receiving changes no
\* run and ends because the channel is closed
C19_Dropped ==
    \A s \in Clients :
      (pc[s] = "np_send" /\ pc'[s] # "np_send" /\ pc[loc[s].ch] # "recv") =>
        /\ closed[loc[s].ch]
        /\ run' = run
        /\ pc'[s] = PcAfterNotify(loc[s])

C19_BlockedSenderReleased ==
    /\ \A s \in Clients, r \in Runs : BlockedOn(s, r) ~> ReleasedFrom(s, r)
    /\ [][C19_Dropped]_vars

\* the run has closed its channel after starting its successor, and a
\* client that waited on the channel all along is still at its send
C19_Witness ==
    \E s \in Clients, r, q \in Runs :
      /\ pc[r] = "done" /\ closed[r]
      /\ pc[s] = "np_send" /\ loc[s].ch = r
      /\ pc[q] = "recv" /\ ~closed[q]

(***************************************************************************)
(* C20.  For every supervisor goroutine that waits in its loop for a       *)
(* message, _messengers maps its process to the channel the loop reads,    *)
(* so NotifyProcess and Close reach it, whatever RunProcess calls were     *)
(* made, a second RunProcess of a process that is still running included.  *)
(***************************************************************************)
C20_LoopReachable ==
    \A r \in Runs : pc[r] = "recv" => _messengers[run[r].proc] = r

====
